---------------------------- MODULE Spec2Model ----------------------------
(***************************************************************************)
(* Kernel corrections of pysph/sph/wc/kernel_correction.py:                *)
(*   KernelCorrection, GradientCorrectionPreStep, GradientCorrection and   *)
(*   MixedKernelCorrectionPreStep.                                         *)
(*                                                                         *)
(* Floating point values are modelled by exact rationals <<num, den>>      *)
(* (den > 0, lowest terms).  +, -, *, / and comparisons are exact; sqrt is *)
(* exact on squares of rationals and rounded down to a multiple of         *)
(* 1/SqrtPrec otherwise.  A division by zero raises ZeroDivisionError      *)
(* (the source is Python; a build compiled with C division puts inf or NaN *)
(* into the result instead): in both cases the particle's pc becomes       *)
(* "error" and err names the divisor that was zero.                        *)
(***************************************************************************)
EXTENDS Integers, Sequences, FiniteSets, TLC

VARIABLES
    eqn,      \* the assembler equation that is instantiated
    dim,      \* self.dim of the equations
    tol,      \* self.tol of GradientCorrection
    x, y, z,  \* particle positions          (d_x/s_x, d_y/s_y, d_z/s_z)
    h,        \* smoothing lengths           (d_h/s_h)
    m, rho,   \* masses and densities        (s_m, s_rho)
    cwij,     \* Correction Scalar per particle           (d_cwij)
    m_mat,    \* Correction Matrix, flat, 9 per particle  (d_m_mat)
    pc,       \* per particle: "reset", "acc", "ready" or "error"
    nbrs,     \* per particle: the neighbor list NBRS of the current pass
    k,        \* per particle: pairs already handed to KernelCorrection.loop
    err,      \* per particle: the division that raised, or "none"
    gcpc,     \* GradientCorrection: "idle", "pair" (arguments set), "done"
    d_idx_gc, \* GradientCorrection.loop: argument d_idx
    DWIJ,     \* GradientCorrection.loop: the pair's gradient (in and out)
    HIJ,      \* GradientCorrection.loop: argument HIJ
    DWIJ_in,  \* the value of DWIJ when loop was entered
    res,      \* GradientCorrection.loop: the solver's result
    change    \* GradientCorrection.loop: the relative change it computed

vars == <<eqn, dim, tol, x, y, z, h, m, rho, cwij, m_mat, pc, nbrs, k, err,
          gcpc, d_idx_gc, DWIJ, HIJ, DWIJ_in, res, change>>

fields   == <<x, y, z, h, m, rho>>
config   == <<eqn, dim, tol>>
gcvars   == <<gcpc, d_idx_gc, DWIJ, HIJ, DWIJ_in, res, change>>

(***************************************************************************)
(* Bounds of the model.                                                    *)
(***************************************************************************)
\* sqrt of a non-square is rounded down to a multiple of 1/SqrtPrec
SqrtPrec == 16
\* particles of the array in the assembly specification
NumParticles == 2
\* particles of the array in the gradient-correction specification
NumParticlesGC == 3

(***************************************************************************)
(* Rational arithmetic.                                                    *)
(***************************************************************************)
RECURSIVE Gcd(_, _)
Gcd(a, b) == IF b = 0 THEN a ELSE Gcd(b, a % b)

IAbs(a) == IF a < 0 THEN -a ELSE a

\* the rational n/d (d # 0) in lowest terms with a positive denominator
Q(n, d) ==
    LET g == Gcd(IAbs(n), IAbs(d))
        s == IF d < 0 THEN -1 ELSE 1
    IN  <<(s * n) \div g, (s * d) \div g>>

Zero == <<0, 1>>
One  == <<1, 1>>

RAdd(a, b) ==
    IF a[2] = b[2] THEN Q(a[1] + b[1], a[2])
    ELSE LET g == Gcd(a[2], b[2])
             l == (a[2] \div g) * b[2]
         IN  Q(a[1] * (l \div a[2]) + b[1] * (l \div b[2]), l)
RNeg(a)    == <<-a[1], a[2]>>
RSub(a, b) ==
    IF a[2] = b[2] THEN Q(a[1] - b[1], a[2]) ELSE RAdd(a, RNeg(b))
RMul(a, b) ==
    IF a[1] = 0 \/ b[1] = 0 THEN Zero
    ELSE LET g1 == Gcd(IAbs(a[1]), b[2])
             g2 == Gcd(IAbs(b[1]), a[2])
         IN  Q((a[1] \div g1) * (b[1] \div g2), (a[2] \div g2) * (b[2] \div g1))
\* a / b for b # 0
RDiv(a, b) ==
    IF b[1] < 0 THEN RMul(a, <<-b[2], -b[1]>>) ELSE RMul(a, <<b[2], b[1]>>)
RAbs(a)    == <<IAbs(a[1]), a[2]>>
RLe(a, b)  == IF a[2] = b[2] THEN a[1] <= b[1] ELSE RSub(a, b)[1] <= 0
RLt(a, b)  == IF a[2] = b[2] THEN a[1] < b[1] ELSE RSub(a, b)[1] < 0

\* the largest s with s * s <= n (n >= 0)
ISqrt(n) ==
    CHOOSE s \in 0..(IF n < 46340 THEN n ELSE 46340) :
        s * s <= n /\ n - s * s <= 2 * s

\* sqrt(a) for a >= 0: exact on a square, else rounded down to 1/SqrtPrec
RSqrt(a) ==
    IF a[1] = 0 THEN Zero
    ELSE LET sn == ISqrt(a[1])
             sd == ISqrt(a[2])
         IN  IF sn * sn = a[1] /\ sd * sd = a[2] THEN <<sn, sd>>
             ELSE LET t == (a[1] \div a[2]) * SqrtPrec
                           + ((a[1] % a[2]) * SqrtPrec) \div a[2]
                  IN  Q(ISqrt(t * SqrtPrec), SqrtPrec)

\* the least q with q * d >= n (n >= 0, d > 0)
CeilDiv(n, d) == (n + d - 1) \div d

(***************************************************************************)
(* Program constants.                                                      *)
(***************************************************************************)
\* the guard r >= 1.0e-12: 1.0e-12 = 1 / (RGuardRoot * RGuardRoot)
RGuardRoot == 1000000
\* eps = 1.0e-04 * HIJ: the denominator of the factor
EpsDen == 10000
\* entries of one particle's flattened 3 x 3 matrix
MatSize == 9
\* the default of GradientCorrection's tol is 0.5 = 1/TolDefaultDen
TolDefaultDen == 2

Half == <<1, 2>>
TolDefault == <<1, TolDefaultDen>>

Particles == DOMAIN x

\* a matrix(3) of the code with the components of f, each of them computed
Vec(f) == (0 :> f[0]) @@ (1 :> f[1]) @@ (2 :> f[2])

(***************************************************************************)
(* The kernel evaluator (KERNEL).  The test kernel of the specification:   *)
(* W(r) = max(0, 1 - r), gradW(xij, r, h) = -xij for r < 1 (and 0 beyond   *)
(* the support, where W is identically 0).                                 *)
(***************************************************************************)
KernelValue(xij, rij, hij) ==
    IF RLt(rij, One) THEN RSub(One, rij) ELSE Zero

KernelGradient(xij, rij, hij) ==
    Vec([i \in 0..2 |-> IF RLt(rij, One) THEN RNeg(xij[i]) ELSE Zero])

(***************************************************************************)
(* Pieces shared by the loop_all bodies.                                   *)
(***************************************************************************)
\* xij[0..2] = (x, y, z) of d_idx minus (s_x, s_y, s_z) of s_idx
Xij(d_idx, s_idx) ==
    Vec([i \in 0..2 |-> CASE i = 0 -> RSub(x[d_idx], x[s_idx])
                          [] i = 1 -> RSub(y[d_idx], y[s_idx])
                          [] i = 2 -> RSub(z[d_idx], z[s_idx])])

\* sqrt(v[0]*v[0] + v[1]*v[1] + v[2]*v[2])
Norm3(v) ==
    IF v[0] = Zero /\ v[1] = Zero /\ v[2] = Zero THEN Zero
    ELSE RSqrt(RAdd(RAdd(RMul(v[0], v[0]), RMul(v[1], v[1])),
                    RMul(v[2], v[2])))

\* hij = (h + s_h[s_idx]) * 0.5
Hij(d_idx, s_idx) == RMul(RAdd(h[d_idx], h[s_idx]), Half)

\* r >= 1.0e-12
GuardR(r) == r[1] >= CeilDiv(CeilDiv(r[2], RGuardRoot), RGuardRoot)

\* variants of the reset the properties are tried against: no reset, and a
\* reset that runs one slot too far
InitializeMatNone(mm, d_idx) == mm

InitializeMatOverrun(mm, d_idx) ==
    [idx \in DOMAIN mm |->
        IF \E i \in 0..MatSize : idx = MatSize * d_idx + i
        THEN Zero ELSE mm[idx]]

\* i = declare('int'); for i in range(9): d_m_mat[9 * d_idx + i] = 0.0
InitializeMat(mm, d_idx) ==
    [idx \in DOMAIN mm |->
        IF \E i \in 0..(MatSize - 1) : idx = MatSize * d_idx + i
        THEN Zero ELSE mm[idx]]

\* for i in range(n): xi = xij[i]; for j in range(n): xj = xij[j]
\*     d_m_mat[9 * d_idx + 3 * i + j] += c * xi * xj
AddMoments(mm, d_idx, xij, c, n) ==
    [idx \in DOMAIN mm |->
        IF \E i, j \in 0..(n - 1) : idx = MatSize * d_idx + 3 * i + j
        THEN LET ij == CHOOSE ij \in (0..(n - 1)) \X (0..(n - 1)) :
                          idx = MatSize * d_idx + 3 * ij[1] + ij[2]
             IN  RAdd(mm[idx], RMul(RMul(c, xij[ij[1]]), xij[ij[2]]))
        ELSE mm[idx]]

\* variants of the accumulation the properties are tried against: one that
\* runs i and j over all three components whatever dim is, one without the
\* guard on r, one without the division by r
AccumulateAllDims(mm, d_idx, xij, dw, V, r, n) ==
    IF GuardR(r)
    THEN [mat |-> AddMoments(mm, d_idx, xij, RDiv(RMul(dw, V), r), 3),
          err |-> "none"]
    ELSE [mat |-> mm, err |-> "none"]

AccumulateUnguarded(mm, d_idx, xij, dw, V, r, n) ==
    IF r = Zero
    THEN [mat |-> mm, err |-> "r"]
    ELSE [mat |-> AddMoments(mm, d_idx, xij, RDiv(RMul(dw, V), r), n),
          err |-> "none"]

AccumulateNoDivide(mm, d_idx, xij, dw, V, r, n) ==
    IF GuardR(r)
    THEN [mat |-> AddMoments(mm, d_idx, xij, RMul(dw, V), n),
          err |-> "none"]
    ELSE [mat |-> mm, err |-> "none"]

\* if r >= 1.0e-12: for i in range(n): for j in range(n):
\*     d_m_mat[9 * d_idx + 3 * i + j] += dw * V * xi * xj / r
Accumulate(mm, d_idx, xij, dw, V, r, n) ==
    IF GuardR(r)
    THEN [mat |-> AddMoments(mm, d_idx, xij, RDiv(RMul(dw, V), r), n),
          err |-> "none"]
    ELSE [mat |-> mm, err |-> "none"]

(***************************************************************************)
(* GradientCorrectionPreStep.loop_all: the loop over NBRS from index kk    *)
(* (1-based position in the sequence), started on the matrix array mm.     *)
(***************************************************************************)
RECURSIVE GCP_Loop(_, _, _, _, _)
GCP_Loop(mm, d_idx, NBRS, kk, n) ==
    IF kk > Len(NBRS) THEN [mat |-> mm, err |-> "none"]
    ELSE LET s_idx == NBRS[kk]
             xij   == Xij(d_idx, s_idx)
             hij   == Hij(d_idx, s_idx)
             r     == Norm3(xij)
             dwij  == KernelGradient(xij, r, hij)
             dw    == Norm3(dwij)
         IN  IF rho[s_idx] = Zero
             THEN [mat |-> mm, err |-> "s_rho"]
             ELSE LET V   == RDiv(m[s_idx], rho[s_idx])
                      acc == Accumulate(mm, d_idx, xij, dw, V, r, n)
                  IN  IF acc.err # "none" THEN acc
                      ELSE GCP_Loop(acc.mat, d_idx, NBRS, kk + 1, n)

(***************************************************************************)
(* MixedKernelCorrectionPreStep.loop_all.                                  *)
(***************************************************************************)
\* pass 1: den and numerator over NBRS from index kk
RECURSIVE MKC_Pass1(_, _, _, _, _, _)
MKC_Pass1(den, numerator, d_idx, NBRS, kk, n) ==
    IF kk > Len(NBRS)
    THEN [den |-> den, numerator |-> numerator, err |-> "none"]
    ELSE LET s_idx == NBRS[kk]
             xij   == Xij(d_idx, s_idx)
         IN  IF rho[s_idx] = Zero
             THEN [den |-> den, numerator |-> numerator, err |-> "s_rho"]
             ELSE LET V    == RDiv(m[s_idx], rho[s_idx])
                      rij  == Norm3(xij)
                      hij  == Hij(d_idx, s_idx)
                      dwij == KernelGradient(xij, rij, hij)
                      wij  == KernelValue(xij, rij, hij)
                  IN  MKC_Pass1(RAdd(den, RMul(V, wij)),
                                Vec([i \in 0..2 |->
                                    IF i < n
                                    THEN RAdd(numerator[i], RMul(V, dwij[i]))
                                    ELSE numerator[i]]),
                                d_idx, NBRS, kk + 1, n)

\* dwij1[i] = (dwij[i] - numerator[i] / den) / den for i < n; dwij1 keeps
\* the 0.0 it was initialised with in the other components (den # 0)
Debias(dwij, numerator, den, n) ==
    Vec([i \in 0..2 |->
        IF i < n THEN RDiv(RSub(dwij[i], RDiv(numerator[i], den)), den)
        ELSE Zero])

\* pass 2: the matrix over NBRS from index kk
RECURSIVE MKC_Pass2(_, _, _, _, _, _, _)
MKC_Pass2(mm, den, numerator, d_idx, NBRS, kk, n) ==
    IF kk > Len(NBRS) THEN [mat |-> mm, err |-> "none"]
    ELSE LET s_idx == NBRS[kk]
             xij   == Xij(d_idx, s_idx)
             hij   == Hij(d_idx, s_idx)
             r     == Norm3(xij)
             dwij  == KernelGradient(xij, r, hij)
         IN  IF den = Zero
             THEN [mat |-> mm, err |-> "den"]
             ELSE LET dwij1 == Debias(dwij, numerator, den, n)
                      dw    == Norm3(dwij1)
                      V     == RDiv(m[s_idx], rho[s_idx])
                      acc   == Accumulate(mm, d_idx, xij, dw, V, r, n)
                  IN  IF acc.err # "none" THEN acc
                      ELSE MKC_Pass2(acc.mat, den, numerator, d_idx, NBRS,
                                     kk + 1, n)

ZeroVec == [i \in 0..2 |-> Zero]

\* the whole of loop_all: [cw, mat, err]; cw is what d_cwij[d_idx] holds
\* afterwards (it is written between the passes, not before an error of
\* pass 1)
MKC_LoopAll(cw, mm, d_idx, NBRS, n) ==
    LET p1 == MKC_Pass1(Zero, ZeroVec, d_idx, NBRS, 1, n)
    IN  IF p1.err # "none"
        THEN [cw |-> cw, mat |-> mm, err |-> p1.err]
        ELSE LET p2 == MKC_Pass2(mm, p1.den, p1.numerator, d_idx, NBRS, 1, n)
             IN  [cw |-> p1.den, mat |-> p2.mat, err |-> p2.err]

(***************************************************************************)
(* The Linear Solver gj_solve(m, b, n, result) of                          *)
(* pysph/sph/wc/density_correction.py: direct elimination; on a regular    *)
(* matrix the solution of m . result = b, on a singular matrix a result    *)
(* that is not specified (any of SingularResults).                         *)
(***************************************************************************)
Det(T, n) ==
    IF n = 2
    THEN RSub(RMul(T[0], T[3]), RMul(T[1], T[2]))
    ELSE RAdd(RSub(RMul(T[0], RSub(RMul(T[4], T[8]), RMul(T[5], T[7]))),
                   RMul(T[1], RSub(RMul(T[3], T[8]), RMul(T[5], T[6])))),
              RMul(T[2], RSub(RMul(T[3], T[7]), RMul(T[4], T[6]))))

ReplaceCol(T, n, c, b) ==
    [idx \in DOMAIN T |-> IF idx % n = c THEN b[idx \div n] ELSE T[idx]]

\* what the solver may leave in result on a singular matrix: the right-hand
\* side, zeros, a value unrelated to both, or not-a-number (0/0 in the
\* elimination)
Garbage == <<2, 1>>
NaN == <<0, 0>>
IsNaN(a) == a[2] = 0

SingularResults(b, n) ==
    { [i \in 0..2 |-> IF i < n THEN b[i] ELSE Zero],
      ZeroVec,
      [i \in 0..2 |-> IF i < n THEN Garbage ELSE Zero],
      [i \in 0..2 |-> IF i < n THEN NaN ELSE Zero] }

gj_solve(T, b, n) ==
    LET d == Det(T, n)
    IN  IF d # Zero
        THEN { Vec([i \in 0..2 |->
                      IF i < n THEN RDiv(Det(ReplaceCol(T, n, i, b), n), d)
                      ELSE Zero]) }
        ELSE SingularResults(b, n)

(***************************************************************************)
(* GradientCorrection.loop                                                 *)
(***************************************************************************)
\* eps = 1.0e-04 * HIJ
Eps(hij) == RMul(<<1, EpsDen>>, hij)

\* a variant of the extraction that reads the stored matrix with stride n
TempWrongStride(mm, d_idx, n) ==
    [idx \in 0..(n * n - 1) |->
        mm[MatSize * d_idx + n * (idx \div n) + (idx % n)]]

\* temp[n * i + j] = d_m_mat[9 * d_idx + 3 * i + j]
Temp(mm, d_idx, n) ==
    [idx \in 0..(n * n - 1) |->
        mm[MatSize * d_idx + 3 * (idx \div n) + (idx % n)]]

\* change = 0.0; for i in range(n):
\*     change += abs(DWIJ[i] - res[i]) / (abs(DWIJ[i]) + eps)
\* (a not-a-number component of res makes the sum not-a-number)
RECURSIVE Change(_, _, _, _, _)
Change(dw, rs, eps, i, n) ==
    IF i >= n THEN Zero
    ELSE LET rest == Change(dw, rs, eps, i + 1, n)
         IN  IF IsNaN(rs[i]) \/ IsNaN(rest) THEN NaN
             ELSE RAdd(rest,
                       RDiv(RAbs(RSub(dw[i], rs[i])), RAdd(RAbs(dw[i]), eps)))

\* variants of the decision the properties are tried against: a strict
\* comparison, and an unconditional overwrite
AcceptStrict(chg, tl) == ~IsNaN(chg) /\ RLt(chg, tl)

CorrectedAlways(dw, rs, chg, tl, n) ==
    [i \in 0..2 |-> IF i < n THEN rs[i] ELSE dw[i]]

\* if change <= self.tol (false when change is not-a-number)
Accept(chg, tl) == ~IsNaN(chg) /\ RLe(chg, tl)

\* if change <= self.tol: for i in range(n): DWIJ[i] = res[i]
Corrected(dw, rs, chg, tl, n) ==
    IF Accept(chg, tl)
    THEN [i \in 0..2 |-> IF i < n THEN rs[i] ELSE dw[i]]
    ELSE dw

(***************************************************************************)
(* Inputs: particle fields, neighbor lists, pair gradients.                *)
(***************************************************************************)
Equations == {"KernelCorrection", "GradientCorrectionPreStep",
              "MixedKernelCorrectionPreStep"}
Dims == {2, 3}

Two   == <<2, 1>>
Four  == <<4, 1>>
Eight == <<8, 1>>

Origin == <<Zero, Zero, Zero>>
\* positions (x, y, z) of the assembly specification
Positions ==
    { Origin, <<Half, Zero, Zero>>, <<One, Zero, Zero>>,
      <<Half, Half, Half>> }
Masses == {One, Two}

\* positions and masses of the gradient-correction specification
PositionsGC ==
    { <<Zero, Zero, Zero>>, <<Half, Zero, Zero>>, <<Zero, Half, Zero>> }
MassesGC == {One, Four, Eight}

Tiny == <<1, EpsDen>>
\* raw pair gradients DWIJ handed to GradientCorrection.loop
Gradients ==
    { [i \in 0..2 |-> CASE i = 0 -> One  [] i = 1 -> Zero [] i = 2 -> Zero],
      [i \in 0..2 |-> CASE i = 0 -> One  [] i = 1 -> One  [] i = 2 -> One],
      [i \in 0..2 |-> CASE i = 0 -> Tiny [] i = 1 -> Tiny [] i = 2 -> Zero],
      [i \in 0..2 |-> CASE i = 0 -> Tiny [] i = 1 -> Zero [] i = 2 -> One],
      ZeroVec }
Tolerances == {TolDefault, Zero}

\* the ascending sequence of the members of S
RECURSIVE SeqOf(_)
SeqOf(S) ==
    IF S = {} THEN <<>>
    ELSE LET lo == CHOOSE a \in S : \A b \in S : a <= b
         IN  <<lo>> \o SeqOf(S \ {lo})

\* the neighbor lists the neighbor search may hand over
NbrLists == { SeqOf(S) : S \in SUBSET Particles }
\* the list of all particles of the array, the particle itself included
FullList == SeqOf(Particles)

(***************************************************************************)
(* Construction.                                                           *)
(***************************************************************************)
InitArrays(np, pos, mass) ==
    /\ x = [p \in 0..(np - 1) |-> pos[p][1]]
    /\ y = [p \in 0..(np - 1) |-> pos[p][2]]
    /\ z = [p \in 0..(np - 1) |-> pos[p][3]]
    /\ h = [p \in 0..(np - 1) |-> One]
    /\ m = mass
    /\ rho = [p \in 0..(np - 1) |-> One]
    /\ cwij = [p \in 0..(np - 1) |-> Zero]
    /\ m_mat = [idx \in 0..(MatSize * np - 1) |-> Zero]
    /\ pc = [p \in 0..(np - 1) |-> "reset"]
    /\ nbrs = [p \in 0..(np - 1) |-> <<>>]
    /\ k = [p \in 0..(np - 1) |-> 0]
    /\ err = [p \in 0..(np - 1) |-> "none"]
    /\ gcpc = "idle"
    /\ d_idx_gc = 0
    /\ DWIJ = ZeroVec
    /\ HIJ = One
    /\ DWIJ_in = ZeroVec
    /\ res = ZeroVec
    /\ change = Zero

\* the placements of np particles: particle 0 at the origin (the code reads
\* positions only through the differences xij), the others anywhere
Placements(np) ==
    { pos \in [0..(np - 1) -> Positions] : pos[0] = Origin }

Init ==
    /\ eqn \in Equations
    /\ dim \in Dims
    /\ tol = TolDefault
    /\ \E pos \in Placements(NumParticles), mass \in Masses :
            InitArrays(NumParticles, pos, [p \in 0..(NumParticles - 1) |-> mass])

InitGC ==
    /\ eqn = "GradientCorrectionPreStep"
    /\ dim \in Dims
    /\ tol \in Tolerances
    /\ \E pos \in [0..(NumParticlesGC - 1) -> PositionsGC], mass \in MassesGC :
            InitArrays(NumParticlesGC, pos, [p \in 0..(NumParticlesGC - 1) |-> mass])

(***************************************************************************)
(* The scheduler: a new time step once every particle is READY.            *)
(***************************************************************************)
BeginStep ==
    /\ \A p \in Particles : pc[p] = "ready"
    /\ gcpc = "idle"
    /\ \E pos \in Placements(NumParticles), mass \in Masses :
        /\ x' = [p \in Particles |-> pos[p][1]]
        /\ y' = [p \in Particles |-> pos[p][2]]
        /\ z' = [p \in Particles |-> pos[p][3]]
        /\ m' = [p \in Particles |-> mass]
    /\ pc' = [p \in Particles |-> "reset"]
    /\ nbrs' = [p \in Particles |-> <<>>]
    /\ k' = [p \in Particles |-> 0]
    /\ UNCHANGED <<config, h, rho, cwij, m_mat, err, gcvars>>

(***************************************************************************)
(* KernelCorrection                                                        *)
(***************************************************************************)
\* d_cwij[d_idx] = 0.0
InitializeScalar(cw, d_idx) == [cw EXCEPT ![d_idx] = Zero]

KC_initialize(d_idx, NBRS) ==
    /\ eqn = "KernelCorrection"
    /\ pc[d_idx] = "reset"
    /\ cwij' = InitializeScalar(cwij, d_idx)
    /\ nbrs' = [nbrs EXCEPT ![d_idx] = NBRS]
    /\ pc' = [pc EXCEPT ![d_idx] = IF Len(NBRS) = 0 THEN "ready" ELSE "acc"]
    /\ UNCHANGED <<config, fields, m_mat, k, err, gcvars>>

\* WIJ of the pair, as the framework evaluates it for loop
Wij(d_idx, s_idx) ==
    LET xij == Xij(d_idx, s_idx)
    IN  KernelValue(xij, Norm3(xij), Hij(d_idx, s_idx))

\* d_cwij[d_idx] += s_m[s_idx] * WIJ / s_rho[s_idx]
KC_Add(cw, d_idx, s_idx, WIJ) ==
    [cw EXCEPT ![d_idx] = RAdd(cw[d_idx],
                               RDiv(RMul(m[s_idx], WIJ), rho[s_idx]))]

KC_loop(d_idx) ==
    /\ eqn = "KernelCorrection"
    /\ pc[d_idx] = "acc"
    /\ LET s_idx == nbrs[d_idx][k[d_idx] + 1]
       IN  IF rho[s_idx] = Zero
           THEN /\ pc' = [pc EXCEPT ![d_idx] = "error"]
                /\ err' = [err EXCEPT ![d_idx] = "s_rho"]
                /\ UNCHANGED <<cwij, k>>
           ELSE /\ cwij' = KC_Add(cwij, d_idx, s_idx, Wij(d_idx, s_idx))
                /\ k' = [k EXCEPT ![d_idx] = @ + 1]
                /\ pc' = [pc EXCEPT ![d_idx] =
                            IF k[d_idx] + 1 = Len(nbrs[d_idx])
                            THEN "ready" ELSE "acc"]
                /\ UNCHANGED err
    /\ UNCHANGED <<config, fields, m_mat, nbrs, gcvars>>

(***************************************************************************)
(* GradientCorrectionPreStep                                               *)
(***************************************************************************)
GCP_initialize(d_idx, NBRS) ==
    /\ eqn = "GradientCorrectionPreStep"
    /\ pc[d_idx] = "reset"
    /\ m_mat' = InitializeMat(m_mat, d_idx)
    /\ nbrs' = [nbrs EXCEPT ![d_idx] = NBRS]
    /\ pc' = [pc EXCEPT ![d_idx] = "acc"]
    /\ UNCHANGED <<config, fields, cwij, k, err, gcvars>>

GCP_loop_all(d_idx) ==
    /\ eqn = "GradientCorrectionPreStep"
    /\ pc[d_idx] = "acc"
    /\ LET out == GCP_Loop(m_mat, d_idx, nbrs[d_idx], 1, dim)
       IN  /\ m_mat' = out.mat
           /\ err' = [err EXCEPT ![d_idx] = out.err]
           /\ pc' = [pc EXCEPT ![d_idx] =
                        IF out.err = "none" THEN "ready" ELSE "error"]
    /\ UNCHANGED <<config, fields, cwij, nbrs, k, gcvars>>

(***************************************************************************)
(* MixedKernelCorrectionPreStep                                            *)
(***************************************************************************)
MKC_initialize(d_idx, NBRS) ==
    /\ eqn = "MixedKernelCorrectionPreStep"
    /\ pc[d_idx] = "reset"
    /\ m_mat' = InitializeMat(m_mat, d_idx)
    /\ nbrs' = [nbrs EXCEPT ![d_idx] = NBRS]
    /\ pc' = [pc EXCEPT ![d_idx] = "acc"]
    /\ UNCHANGED <<config, fields, cwij, k, err, gcvars>>

MKC_loop_all(d_idx) ==
    /\ eqn = "MixedKernelCorrectionPreStep"
    /\ pc[d_idx] = "acc"
    /\ LET out == MKC_LoopAll(cwij[d_idx], m_mat, d_idx, nbrs[d_idx], dim)
       IN  /\ cwij' = [cwij EXCEPT ![d_idx] = out.cw]
           /\ m_mat' = out.mat
           /\ err' = [err EXCEPT ![d_idx] = out.err]
           /\ pc' = [pc EXCEPT ![d_idx] =
                        IF out.err = "none" THEN "ready" ELSE "error"]
    /\ UNCHANGED <<config, fields, nbrs, k, gcvars>>

(***************************************************************************)
(* GradientCorrection, once every particle's matrix is READY.              *)
(***************************************************************************)
\* the framework hands a pair's DWIJ and HIJ to loop
SetPair(d_idx, g, hh) ==
    /\ \A p \in Particles : pc[p] = "ready"
    /\ gcpc = "idle"
    /\ gcpc' = "pair"
    /\ d_idx_gc' = d_idx
    /\ DWIJ' = g
    /\ DWIJ_in' = g
    /\ HIJ' = hh
    /\ res' = ZeroVec
    /\ change' = Zero
    /\ UNCHANGED <<config, fields, cwij, m_mat, pc, nbrs, k, err>>

GC_loop ==
    /\ gcpc = "pair"
    /\ LET n    == dim
           eps  == Eps(HIJ)
           temp == Temp(m_mat, d_idx_gc, n)
       IN  \E rs \in gj_solve(temp, DWIJ, n) :
             LET chg == Change(DWIJ, rs, eps, 0, n)
             IN  /\ res' = rs
                 /\ change' = chg
                 /\ DWIJ' = Corrected(DWIJ, rs, chg, tol, n)
    /\ gcpc' = "done"
    /\ UNCHANGED <<config, fields, cwij, m_mat, pc, nbrs, k, err, d_idx_gc,
                   HIJ, DWIJ_in>>

\* the pair is done with: the framework goes on to the next pair
EndPair ==
    /\ gcpc = "done"
    /\ gcpc' = "idle"
    /\ d_idx_gc' = 0
    /\ DWIJ' = ZeroVec
    /\ DWIJ_in' = ZeroVec
    /\ HIJ' = One
    /\ res' = ZeroVec
    /\ change' = Zero
    /\ UNCHANGED <<config, fields, cwij, m_mat, pc, nbrs, k, err>>

\* the particles are assembled one after the other, in index order
InOrder(a) == \A p \in Particles : p < a => pc[p] = "ready"

(***************************************************************************)
(* Specifications.                                                         *)
(***************************************************************************)
Next ==
    \/ \E a \in Particles, nb \in NbrLists : KC_initialize(a, nb)
    \/ \E a \in Particles : KC_loop(a)
    \/ \E a \in Particles, nb \in NbrLists : GCP_initialize(a, nb)
    \/ \E a \in Particles : GCP_loop_all(a)
    \/ \E a \in Particles, nb \in NbrLists : MKC_initialize(a, nb)
    \/ \E a \in Particles : MKC_loop_all(a)
    \/ BeginStep

Spec == Init /\ [][Next]_vars

NextGC ==
    \/ \E a \in Particles : InOrder(a) /\ GCP_initialize(a, FullList)
    \/ \E a \in Particles : InOrder(a) /\ GCP_loop_all(a)
    \/ \E a \in Particles, g \in Gradients : SetPair(a, g, One)
    \/ GC_loop
    \/ EndPair

SpecGC == InitGC /\ [][NextGC]_vars

(***************************************************************************)
(* Notions the properties are stated with.                                 *)
(***************************************************************************)
\* the nine entries of particle a's matrix
Block(mm, a) == [e \in 0..(MatSize - 1) |-> mm[MatSize * a + e]]
ZeroBlock == [e \in 0..(MatSize - 1) |-> Zero]

\* the sum of the members of the sequence t
RECURSIVE SumSeq(_)
SumSeq(t) == IF t = <<>> THEN Zero ELSE RAdd(Head(t), SumSeq(Tail(t)))

Volume(b) == RDiv(m[b], rho[b])
Dist(a, b) == Norm3(Xij(a, b))
GradW(a, b) == KernelGradient(Xij(a, b), Dist(a, b), Hij(a, b))
\* b is at a distance r < 1e-12 of a
Coincident(a, b) == ~GuardR(Dist(a, b))

\* KernelCorrection.loop over the whole neighbor list, from index kk
RECURSIVE KC_AllPairs(_, _, _, _)
KC_AllPairs(cw, a, NBRS, kk) ==
    IF kk > Len(NBRS) THEN cw
    ELSE KC_AllPairs(KC_Add(cw, a, NBRS[kk], Wij(a, NBRS[kk])), a, NBRS, kk + 1)

\* initialize and accumulation of particle a alone, on the arrays cw and mm
AssembleAlone(cw, mm, a) ==
    CASE eqn = "KernelCorrection" ->
            <<KC_AllPairs(InitializeScalar(cw, a), a, nbrs[a], 1), mm>>
      [] eqn = "GradientCorrectionPreStep" ->
            <<cw, GCP_Loop(InitializeMat(mm, a), a, nbrs[a], 1, dim).mat>>
      [] eqn = "MixedKernelCorrectionPreStep" ->
            LET out == MKC_LoopAll(cw[a], InitializeMat(mm, a), a, nbrs[a], dim)
            IN  <<[cw EXCEPT ![a] = out.cw], out.mat>>

\* a value left in a slot by an earlier step
Stale == <<3, 1>>
\* the arrays with particle a's slots holding stale values
StaleScalar(cw, a) == [cw EXCEPT ![a] = Stale]
StaleMat(mm, a) ==
    [e \in DOMAIN mm |-> IF e \div MatSize = a THEN Stale ELSE mm[e]]
\* what the assembly of particle a from the current fields and its neighbor
\* list gives when it starts on stale slots
Fresh(a) == AssembleAlone(StaleScalar(cwij, a), StaleMat(m_mat, a), a)

MatEqns == {"GradientCorrectionPreStep", "MixedKernelCorrectionPreStep"}

(***************************************************************************)
(* C2: no operation reaches an error state, whatever its inputs; in        *)
(* particular the Mixed Assembler completes when the pass-1 denominator    *)
(* den is zero over a non-empty neighbor list.                             *)
(***************************************************************************)
C2_NoErrorState == \A p \in Particles : pc[p] # "error"

(***************************************************************************)
(* C3: after initialize, and after loop_all, of the Moment-Matrix          *)
(* Assembler or of the Mixed Assembler, every entry of the destination     *)
(* particle's matrix with row or column index >= dim is exactly 0.         *)
(***************************************************************************)
C3_DimensionalZeroing ==
    \A a \in Particles :
        (eqn \in MatEqns /\ pc[a] \in {"acc", "ready", "error"}) =>
            \A i, j \in 0..2 :
                (i >= dim \/ j >= dim) => m_mat[MatSize * a + 3 * i + j] = Zero

\* a dim = 2 assembly is READY whose neighbor lies off the plane (z differs,
\* the gradient has a third component) and contributes to the matrix
C3_Witness ==
    \E a \in Particles :
        /\ eqn \in MatEqns /\ dim = 2 /\ pc[a] = "ready"
        /\ m_mat[MatSize * a] # Zero
        /\ \E q \in 1..Len(nbrs[a]) :
              /\ Xij(a, nbrs[a][q])[2] # Zero
              /\ GradW(a, nbrs[a][q])[2] # Zero

(***************************************************************************)
(* C4: a neighbor at distance r < 1e-12 contributes exactly zero to the    *)
(* matrix: the assembled matrix equals the one assembled from the list     *)
(* without such neighbors (for the Mixed Assembler: without them in pass   *)
(* 2), and no division by r is performed for them.                         *)
(***************************************************************************)
NonCoincident(a, NBRS) == SelectSeq(NBRS, LAMBDA b : ~Coincident(a, b))

AssembledWithout(a) ==
    IF eqn = "GradientCorrectionPreStep"
    THEN GCP_Loop(InitializeMat(m_mat, a), a, NonCoincident(a, nbrs[a]), 1,
                  dim).mat
    ELSE LET p1 == MKC_Pass1(Zero, ZeroVec, a, nbrs[a], 1, dim)
         IN  MKC_Pass2(InitializeMat(m_mat, a), p1.den, p1.numerator, a,
                       NonCoincident(a, nbrs[a]), 1, dim).mat

C4_CoincidentContributesZero ==
    \A a \in Particles :
        eqn \in MatEqns =>
            /\ err[a] # "r"
            /\ pc[a] = "ready" =>
                  Block(m_mat, a) = Block(AssembledWithout(a), a)

\* a READY matrix with a coincident neighbor in the list and a non-zero
\* contribution of another neighbor
C4_Witness ==
    \E a \in Particles :
        /\ eqn \in MatEqns /\ pc[a] = "ready"
        /\ \E q \in 1..Len(nbrs[a]) : Coincident(a, nbrs[a][q])
        /\ m_mat[MatSize * a] # Zero

(***************************************************************************)
(* C5, as claimed: initialize resets to zero what the assembler produces:  *)
(* cwij for KernelCorrection, m_mat for GradientCorrectionPreStep, both    *)
(* for MixedKernelCorrectionPreStep.                                       *)
(***************************************************************************)
JustInitialized(a) == pc[a] = "acc" /\ k[a] = 0

C5_ResetAtInitialize ==
    \A a \in Particles :
        JustInitialized(a) =>
            /\ eqn = "KernelCorrection" => cwij[a] = Zero
            /\ eqn = "GradientCorrectionPreStep" => Block(m_mat, a) = ZeroBlock
            /\ eqn = "MixedKernelCorrectionPreStep" =>
                  (cwij[a] = Zero /\ Block(m_mat, a) = ZeroBlock)

(***************************************************************************)
(* C5, amended: initialize resets cwij for KernelCorrection and m_mat for  *)
(* both matrix assemblers (the Mixed Assembler's initialize leaves cwij,   *)
(* which loop_all overwrites with a den accumulated from 0); in READY      *)
(* state the values are those of an assembly from the current step's       *)
(* particle fields and neighbor list, whatever an earlier step left in     *)
(* the particle's slots.                                                   *)
(***************************************************************************)
C5_RecomputedEachStep ==
    \A a \in Particles :
        /\ JustInitialized(a) =>
              /\ eqn = "KernelCorrection" => cwij[a] = Zero
              /\ eqn \in MatEqns => Block(m_mat, a) = ZeroBlock
        /\ pc[a] = "ready" =>
              /\ eqn \in {"KernelCorrection", "MixedKernelCorrectionPreStep"}
                    => cwij[a] = Fresh(a)[1][a]
              /\ eqn \in MatEqns => Block(m_mat, a) = Block(Fresh(a)[2], a)

\* a later step of the Mixed Assembler: one particle is READY with values of
\* this step, another is initialized and still holds the earlier step's cwij
C5_Witness ==
    /\ eqn = "MixedKernelCorrectionPreStep"
    /\ \E a, b \in Particles :
          /\ pc[a] = "ready" /\ cwij[a] # Zero /\ m_mat[MatSize * a] # Zero
          /\ JustInitialized(b) /\ cwij[b] # Zero

(***************************************************************************)
(* C6: the assembly of particle a writes only cwij[a] and                  *)
(* m_mat[9a .. 9a+8], so for every interleaving of the particles' assembly *)
(* steps the final cwij and m_mat equal those of a sequential run.         *)
(***************************************************************************)
\* the particles from a on, one after the other in index order
RECURSIVE SequentialRun(_, _, _)
SequentialRun(cw, mm, a) ==
    IF a \notin Particles THEN <<cw, mm>>
    ELSE LET one == AssembleAlone(cw, mm, a)
         IN  SequentialRun(one[1], one[2], a + 1)

AllReady == \A p \in Particles : pc[p] = "ready"

\* a step that is none of particle p's leaves p's scalar and matrix alone
OwnSlotsOnly ==
    \A p \in Particles :
        (pc'[p] = pc[p] /\ k'[p] = k[p]) =>
            (cwij'[p] = cwij[p] /\ Block(m_mat', p) = Block(m_mat, p))

C6_NoCrossParticleMutation ==
    /\ [][OwnSlotsOnly]_vars
    /\ [](AllReady => SequentialRun(cwij, m_mat, 0) = <<cwij, m_mat>>)

\* two particles that are each other's neighbors (destination and source are
\* the same array), one READY with a non-zero matrix while the other is
\* between its initialize and its loop_all
C6_Witness ==
    \E a, b \in Particles :
        /\ a # b /\ eqn \in MatEqns
        /\ pc[a] = "ready" /\ pc[b] = "acc"
        /\ \E q \in 1..Len(nbrs[a]) : nbrs[a][q] = b
        /\ \E q \in 1..Len(nbrs[b]) : nbrs[b][q] = a
        /\ m_mat[MatSize * a] # Zero

(***************************************************************************)
(* C9: the debiased gradient of the Mixed Assembler's pass 2 reproduces    *)
(* constants exactly: for every neighbor list with den # 0 and every       *)
(* i < dim, the sum over the neighbors b of V_b * gradWbar_ab[i] is 0.     *)
(***************************************************************************)
\* dwij1 of pass 2 for neighbor b, from pass 1's den and numerator
Dwij1(a, b) ==
    LET p1 == MKC_Pass1(Zero, ZeroVec, a, nbrs[a], 1, dim)
    IN  Debias(GradW(a, b), p1.numerator, p1.den, dim)

C9_ReproducesConstants ==
    \A a \in Particles :
        (eqn = "MixedKernelCorrectionPreStep" /\ pc[a] = "ready"
            /\ nbrs[a] # <<>>) =>
            \A i \in 0..(dim - 1) :
                SumSeq([q \in 1..Len(nbrs[a]) |->
                          RMul(Volume(nbrs[a][q]), Dwij1(a, nbrs[a][q])[i])])
                    = Zero

(***************************************************************************)
(* C10, as claimed: 2 particles, dim = 2, a at (0,0), b at (1,0),          *)
(* h = m = rho = 1, b in a's neighbor list: the Moment-Matrix Assembler    *)
(* yields m_mat[0] = 1 and m_mat[4] = 0 for a, the cross terms 0.          *)
(***************************************************************************)
\* the worked example with b at (bx, 0), assembled for particle a = 0
WorkedExample(bx) ==
    /\ eqn = "GradientCorrectionPreStep" /\ dim = 2
    /\ DOMAIN x = {0, 1}
    /\ x[0] = Zero /\ y[0] = Zero /\ z[0] = Zero
    /\ x[1] = bx /\ y[1] = Zero /\ z[1] = Zero
    /\ \A p \in Particles : h[p] = One /\ m[p] = One /\ rho[p] = One
    /\ pc[0] = "ready"
    /\ \E q \in 1..Len(nbrs[0]) : nbrs[0][q] = 1

Delta(D, xv, hh, n) ==
    IF \E i \in 0..(n - 1) : IsNaN(xv[i]) THEN NaN
    ELSE SumSeq([q \in 1..n |->
                    RDiv(RAbs(RSub(D[q - 1], xv[q - 1])),
                         RAdd(RAbs(D[q - 1]), RMul(<<1, EpsDen>>, hh)))])

PairDelta == Delta(DWIJ_in, res, HIJ, dim)
DeltaLeTol == ~IsNaN(PairDelta) /\ RLe(PairDelta, tol)
EqualsOnDim(v, w) == \A i \in 0..(dim - 1) : v[i] = w[i]
PairBlock == Temp(m_mat, d_idx_gc, dim)
Singular == Det(PairBlock, dim) = Zero
\* the leading dim x dim block is c times the identity, c # 0
Isotropic(c) ==
    /\ c # Zero
    /\ \A i, j \in 0..(dim - 1) :
          m_mat[MatSize * d_idx_gc + 3 * i + j] = IF i = j THEN c ELSE Zero
\* D[i] / c on the first dim components
ScaledBy(D, c) == [i \in 0..2 |-> IF i < dim THEN RDiv(D[i], c) ELSE D[i]]

(***************************************************************************)
(* C1: with x the solver result for the leading block of a's matrix and    *)
(* right-hand side DWIJ, the gradient after GradientCorrection.loop equals *)
(* x in its first dim components exactly when Delta <= tol, and is the     *)
(* gradient before the call in every component when Delta > tol; the       *)
(* boundary Delta = tol is accepted.                                       *)
(***************************************************************************)
C1_DecisionRule ==
    gcpc = "done" =>
        /\ res \in gj_solve(PairBlock, DWIJ_in, dim)
        /\ EqualsOnDim(DWIJ, res) <=> DeltaLeTol
        /\ ~DeltaLeTol => DWIJ = DWIJ_in
        /\ \A i \in dim..2 : DWIJ[i] = DWIJ_in[i]

\* a pair exactly on the boundary, with the default tolerance, accepted
C1_Witness ==
    /\ gcpc = "done"
    /\ tol = TolDefault
    /\ PairDelta = tol
    /\ EqualsOnDim(DWIJ, res)
    /\ DWIJ # DWIJ_in

(***************************************************************************)
(* C7, as claimed: whenever the leading dim x dim block of a's matrix is   *)
(* exactly singular, GradientCorrection.loop takes the reject branch for   *)
(* every raw gradient, whatever the solver returns: Delta > tol and the    *)
(* gradient after the call equals the gradient before it.                  *)
(***************************************************************************)
C7_SingularAlwaysRejects ==
    (gcpc = "done" /\ Singular) => (~DeltaLeTol /\ DWIJ = DWIJ_in)

(***************************************************************************)
(* C7, amended: on a singular block the solver's result is not specified,  *)
(* and loop applies its decision rule to whatever comes back: the gradient *)
(* is left as it was when Delta > tol or Delta is not a number, and is     *)
(* overwritten with the solver's result when that result lies within tol   *)
(* of the raw gradient.                                                    *)
(***************************************************************************)
C7_SingularFollowsDecisionRule ==
    (gcpc = "done" /\ Singular) =>
        /\ res \in SingularResults(DWIJ_in, dim)
        /\ ~DeltaLeTol => DWIJ = DWIJ_in
        /\ DeltaLeTol =>
              (EqualsOnDim(DWIJ, res) /\ \A i \in dim..2 : DWIJ[i] = DWIJ_in[i])

\* a singular block whose solver result was accepted and changed the gradient
C7_Witness ==
    /\ gcpc = "done"
    /\ Singular
    /\ DeltaLeTol
    /\ DWIJ # DWIJ_in

(***************************************************************************)
(* C8, as claimed: when the leading dim x dim block of a's matrix is c     *)
(* times the identity (c # 0), GradientCorrection.loop with the default    *)
(* tol = 0.5 takes the accept branch and the gradient after the call is    *)
(* the raw gradient times 1/c in every active component.                   *)
(***************************************************************************)
C8_IsotropicAccepted ==
    \A c \in {m_mat[MatSize * d_idx_gc]} :
        (gcpc = "done" /\ tol = TolDefault /\ Isotropic(c)) =>
            (DeltaLeTol /\ DWIJ = ScaledBy(DWIJ_in, c))

(***************************************************************************)
(* C8, amended: when the block is c times the identity (c # 0) the solver  *)
(* result is the raw gradient times 1/c, and                               *)
(* Delta = |1 - 1/c| * sum over i < dim of |DWIJ[i]| / (|DWIJ[i]| + eps);  *)
(* the result is accepted, and the gradient scaled by 1/c, only when that  *)
(* Delta <= tol; otherwise the raw gradient is kept.                       *)
(***************************************************************************)
C8_IsotropicScaledWhenAccepted ==
    \A c \in {m_mat[MatSize * d_idx_gc]} :
        (gcpc = "done" /\ Isotropic(c)) =>
            /\ EqualsOnDim(res, ScaledBy(DWIJ_in, c))
            /\ PairDelta =
                  RMul(RAbs(RSub(One, RDiv(One, c))),
                       SumSeq([q \in 1..dim |->
                                 RDiv(RAbs(DWIJ_in[q - 1]),
                                      RAdd(RAbs(DWIJ_in[q - 1]),
                                           RMul(<<1, EpsDen>>, HIJ)))]))
            /\ DeltaLeTol => DWIJ = ScaledBy(DWIJ_in, c)
            /\ ~DeltaLeTol => DWIJ = DWIJ_in

\* an isotropic block with c # 1, default tolerance, accepted and scaled
C8_Witness ==
    /\ gcpc = "done"
    /\ tol = TolDefault
    /\ Isotropic(m_mat[MatSize * d_idx_gc])
    /\ m_mat[MatSize * d_idx_gc] # One
    /\ DeltaLeTol
    /\ DWIJ = ScaledBy(DWIJ_in, m_mat[MatSize * d_idx_gc])
    /\ DWIJ # DWIJ_in

=============================================================================
